---- MODULE Spec2Model ----
(***************************************************************************)
(* Model of the CountriesDB validator client (validator.go, types.go).     *)
(*                                                                         *)
(* A Go string is modelled as a sequence of characters, each character a   *)
(* one-character TLA+ string with the byte width of its UTF-8 encoding, so *)
(* that len(s) (a byte count) and strings.ToUpper (a per-character map)    *)
(* are computed as the code computes them.                                 *)
(***************************************************************************)
EXTENDS Integers, Sequences, FiniteSets, TLC

VARIABLES
    v,          \* the *Validator the calls are made on
    newArgs,    \* arguments of the last NewValidator call
    newRet,     \* what the last NewValidator call returned
    pc,         \* position of the current call: "idle", "inflight", "returned"
    call,       \* the operation called and its arguments
    codes,      \* the caller's codes slice (backing array shared with the callee)
    ctx,        \* the call's context: "nil", "live" or "done"
    reqs,       \* requests handed to v.httpClient.Do during the current call
    resp,       \* responses obtained from v.httpClient.Do during the current call
    closes,     \* number of resp.Body.Close() calls during the current call
    ret         \* what the current call returned

vars == <<v, newArgs, newRet, pc, call, codes, ctx, reqs, resp, closes, ret>>

----------------------------------------------------------------------------
(* Bounds of the model *)

MaxStrLen == 2      \* characters in an input string
MaxCodes == 2       \* entries in a codes slice
MaxOpts == 2        \* options passed to NewValidator

----------------------------------------------------------------------------
(* Strings *)

RECURSIVE SeqsUpTo(_, _)
SeqsUpTo(S, n) ==
    IF n = 0 THEN {<<>>}
    ELSE LET shorter == SeqsUpTo(S, n - 1)
         IN  shorter \cup {Append(s, c) : s \in shorter, c \in S}

\* UTF-8 width of a character: the two-byte characters of the model are
\* the accented letters.
Width(c) == IF c \in {"é", "É"} THEN 2 ELSE 1

\* len(s): the number of bytes of s
RECURSIVE len(_)
len(s) == IF s = <<>> THEN 0 ELSE Width(Head(s)) + len(Tail(s))

\* unicode.ToUpper on one character
ToUpperChar(c) ==
    CASE c = "u" -> "U"
      [] c = "é" -> "É"
      [] OTHER   -> c

\* strings.ToUpper: the string rebuilt character by character
RECURSIVE ToUpper(_)
ToUpper(s) ==
    IF s = <<>> THEN <<>> ELSE <<ToUpperChar(Head(s))>> \o ToUpper(Tail(s))

\* unicode.IsSpace on one character
IsSpace(c) == c \in {" ", "\t", "\n", "\r"}

\* strings.TrimSpace: drop leading and trailing white space
RECURSIVE TrimLeftSpace(_)
TrimLeftSpace(s) ==
    IF s # <<>> /\ IsSpace(Head(s)) THEN TrimLeftSpace(Tail(s)) ELSE s

RECURSIVE TrimRightSpace(_)
TrimRightSpace(s) ==
    IF s # <<>> /\ IsSpace(s[Len(s)])
    THEN TrimRightSpace(SubSeq(s, 1, Len(s) - 1))
    ELSE s

TrimSpace(s) == TrimRightSpace(TrimLeftSpace(s))

\* strings.TrimRight(s, "/")
RECURSIVE TrimRightSlash(_)
TrimRightSlash(s) ==
    IF s # <<>> /\ s[Len(s)] = "/"
    THEN TrimRightSlash(SubSeq(s, 1, Len(s) - 1))
    ELSE s

----------------------------------------------------------------------------
(* Types (types.go) *)

\* ValidationResult; ZeroResult is its zero value
ValidationResult(valid, message, code) ==
    [Valid |-> valid, Message |-> message, Code |-> code]

ZeroResult == ValidationResult(FALSE, "", "")

\* A []ValidationResult: nil, or a (possibly empty) slice
NilResults == [nil |-> TRUE, elems |-> <<>>]

Results(elems) == [nil |-> FALSE, elems |-> elems]

\* CountryOptions and SubdivisionOptions
CountryOptions == [FollowUpward : BOOLEAN]

SubdivisionOptions == [FollowRelated : BOOLEAN, AllowParentSelection : BOOLEAN]

\* Go errors: NilErr is the nil error; kind names where the error was made
NilErr == [kind |-> "nil", text |-> ""]

Err(kind, text) == [kind |-> kind, text |-> text]

----------------------------------------------------------------------------
(* Construction (validator.go) *)

defaultBaseURL ==
    <<"h","t","t","p","s",":","/","/","a","p","i",".",
      "c","o","u","n","t","r","i","e","s","d","b",".","c","o","m">>

\* The *http.Client values of the model: nil, the client NewValidator
\* builds (Timeout: 10 * time.Second) and a caller's own client.
DefaultTimeoutSeconds == 10

DefaultHTTPClient == [name |-> "default", timeout |-> DefaultTimeoutSeconds]

CustomHTTPClient == [name |-> "custom", timeout |-> 5]

NilHTTPClient == [name |-> "nil", timeout |-> 0]

\* WithBaseURL(baseURL) applied to validator w
WithBaseURL(baseURL, w) ==
    IF baseURL # <<>> THEN [w EXCEPT !.baseURL = TrimRightSlash(baseURL)] ELSE w

\* WithHTTPClient(h) applied to validator w
WithHTTPClient(h, w) ==
    IF h # NilHTTPClient THEN [w EXCEPT !.httpClient = h] ELSE w

\* An Option value: which option and its argument
BaseURLOption(baseURL) == [opt |-> "WithBaseURL", baseURL |-> baseURL, h |-> NilHTTPClient]

HTTPClientOption(h) == [opt |-> "WithHTTPClient", baseURL |-> <<>>, h |-> h]

ApplyOption(o, w) ==
    IF o.opt = "WithBaseURL" THEN WithBaseURL(o.baseURL, w) ELSE WithHTTPClient(o.h, w)

\* for _, opt := range opts { opt(validator) }
RECURSIVE ApplyOptions(_, _)
ApplyOptions(opts, w) ==
    IF opts = <<>> THEN w ELSE ApplyOptions(Tail(opts), ApplyOption(Head(opts), w))

NilValidator == [nil |-> TRUE, apiKey |-> <<>>, baseURL |-> <<>>, httpClient |-> NilHTTPClient]

\* Mutant of KeyMissing: the key is compared without strings.TrimSpace
KeyMissing_NoTrim(apiKey) == apiKey = <<>>

\* The emptiness test NewValidator makes on the key
KeyMissing(apiKey) == TrimSpace(apiKey) = <<>>

\* NewValidator(apiKey, opts...): the returned (validator, error)
NewValidator(apiKey, opts) ==
    IF KeyMissing(apiKey)
    THEN [validator |-> NilValidator,
          err |-> Err("config", "countriesdb: api key is required")]
    ELSE [validator |->
              ApplyOptions(opts, [nil |-> FALSE, apiKey |-> apiKey,
                                  baseURL |-> defaultBaseURL,
                                  httpClient |-> DefaultHTTPClient]),
          err |-> NilErr]

----------------------------------------------------------------------------
(* JSON documents a server can answer with, and encoding/json's decoding *)

\* A response body: empty ("eof"), not JSON ("syntax"), or a JSON object
\* with the members message, valid, code and (when hasResults) results.
Body(kind, message, valid, code, hasResults, results) ==
    [kind |-> kind, message |-> message, valid |-> valid, code |-> code,
     hasResults |-> hasResults, results |-> results]

EmptyBody == Body("eof", "", FALSE, "", FALSE, <<>>)

GarbageBody == Body("syntax", "", FALSE, "", FALSE, <<>>)

Bodies ==
    { EmptyBody,
      GarbageBody,
      Body("object", "not found", FALSE, "", FALSE, <<>>),
      Body("object", "", FALSE, "", FALSE, <<>>),
      Body("object", "", TRUE, "US", FALSE, <<>>),
      Body("object", "Invalid country code.", FALSE, "ZZ", FALSE, <<>>),
      Body("object", "", FALSE, "", TRUE, <<>>),
      Body("object", "", FALSE, "", TRUE,
           << ValidationResult(TRUE, "", "US"),
              ValidationResult(FALSE, "Invalid country code.", "ZZ") >>) }

Statuses == {200, 301, 399, 400, 404, 500}

\* The error of json.NewDecoder(body).Decode(..), by the kind of document
DecodeErr(body) ==
    CASE body.kind = "eof"    -> Err("decode", "EOF")
      [] body.kind = "syntax" -> Err("decode", "invalid character")
      [] OTHER                -> NilErr

\* Decode into an apiError{Message}
apiError(body) ==
    [err |-> DecodeErr(body),
     Message |-> IF body.kind = "object" THEN body.message ELSE ""]

\* Decode into a ValidationResult (the zero value is kept on failure)
DecodeResult(body) ==
    IF body.kind = "object"
    THEN ValidationResult(body.valid, body.message, body.code)
    ELSE ZeroResult

\* Decode into a multiResult{Results}
multiResult(body) ==
    IF body.kind = "object" /\ body.hasResults
    THEN Results(body.results)
    ELSE NilResults

----------------------------------------------------------------------------
(* The request helper (validator.go, post) *)

\* What a call hands back: the single result, the results slice, the error
Return(single, multi, err) == [single |-> single, multi |-> multi, err |-> err]

NoReturn == Return(ZeroResult, NilResults, NilErr)

Request(w, path, payload) ==
    [method |-> "POST", base |-> w.baseURL, path |-> path,
     contentType |-> "application/json",
     authorization |-> <<"Bearer ", w.apiKey>>,
     payload |-> payload]

\* post up to v.httpClient.Do(req): http.NewRequestWithContext refuses a
\* nil context; json.Marshal cannot fail on the payloads of this package.
\* Yields the call's position, what it returned so far and the requests
\* handed to Do.
postRequest(w, c, path, payload) ==
    IF c = "nil"
    THEN [pc |-> "returned",
          ret |-> Return(ZeroResult, NilResults, Err("request", "net/http: nil Context")),
          reqs |-> <<>>]
    ELSE [pc |-> "inflight",
          ret |-> NoReturn,
          reqs |-> <<Request(w, path, payload)>>]

\* Mutant of postStatusError: the decoded message is used even when empty
postStatusError_NoEmptyCheck(status, body) ==
    LET apiErr == apiError(body)
    IN  IF apiErr.err # NilErr
        THEN Err("server", "countriesdb: http " \o ToString(status))
        ELSE Err("server", apiErr.Message)

\* The error post makes of a response with status >= 400
postStatusError(status, body) ==
    LET apiErr == apiError(body)
    IN  IF apiErr.err # NilErr \/ apiErr.Message = ""
        THEN Err("server", "countriesdb: http " \o ToString(status))
        ELSE Err("server", apiErr.Message)

\* Mutant of postResponse: the body is closed after decoding the result
\* instead of by a deferred call, so the status >= 400 and no-output
\* returns leave it open
postResponse_CloseAfterDecode(r, out) ==
    IF r.status >= 400
    THEN [ret |-> Return(ZeroResult, NilResults, postStatusError(r.status, r.body)),
          closes |-> 0]
    ELSE IF out = "nil"
    THEN [ret |-> NoReturn, closes |-> 0]
    ELSE IF out = "single"
    THEN [ret |-> Return(DecodeResult(r.body), NilResults, DecodeErr(r.body)),
          closes |-> 1]
    ELSE [ret |-> Return(ZeroResult, multiResult(r.body), DecodeErr(r.body)),
          closes |-> 1]

\* post after Do returned response r, decoding into out ("nil", "single"
\* or "multi"); closes counts the resp.Body.Close() calls, here the one
\* deferred call that runs on every return.
postResponse(r, out) ==
    LET outcome ==
            IF r.status >= 400
            THEN Return(ZeroResult, NilResults, postStatusError(r.status, r.body))
            ELSE IF out = "nil"
            THEN NoReturn
            ELSE IF out = "single"
            THEN Return(DecodeResult(r.body), NilResults, DecodeErr(r.body))
            ELSE Return(ZeroResult, multiResult(r.body), DecodeErr(r.body))
    IN  [ret |-> outcome, closes |-> 1]

----------------------------------------------------------------------------
(* The four operations, from entry to v.httpClient.Do or an early return *)

\* The "code" member of a payload: a JSON string (single operations) or a
\* JSON array of strings (batch operations)
CodeString(s) == [array |-> FALSE, str |-> s, arr |-> <<>>]

CodeArray(cs) == [array |-> TRUE, str |-> <<>>, arr |-> cs]

\* Outcome of an operation that returned before any request was built
Early(cs, r) == [pc |-> "returned", ret |-> r, reqs |-> <<>>, codes |-> cs]

\* Outcome of an operation that went through post; cs is the caller's slice
ViaPost(cs, p) == [pc |-> p.pc, ret |-> p.ret, reqs |-> p.reqs, codes |-> cs]

\* Mutant of formatLoop: every length is checked before any code is
\* written back
RECURSIVE UpperFrom(_, _)
UpperFrom(cs, i) ==
    IF i > Len(cs) THEN cs ELSE UpperFrom([cs EXCEPT ![i] = ToUpper(cs[i])], i + 1)

formatLoop_CheckBeforeWrite(cs, i) ==
    IF \E j \in i..Len(cs) : len(cs[j]) # 2
    THEN [ok |-> FALSE, codes |-> cs]
    ELSE [ok |-> TRUE, codes |-> UpperFrom(cs, i)]

\* "for i, code := range codes": the format loop of ValidateCountries from
\* index i on; it writes the upper-cased code back into the caller's slice
\* and stops at the first code whose length is not 2.
RECURSIVE formatLoop(_, _)
formatLoop(cs, i) ==
    IF i > Len(cs) THEN [ok |-> TRUE, codes |-> cs]
    ELSE IF len(cs[i]) # 2 THEN [ok |-> FALSE, codes |-> cs]
    ELSE formatLoop([cs EXCEPT ![i] = ToUpper(cs[i])], i + 1)

\* payloadCodes of ValidateSubdivisions: a fresh slice, filled entry by entry
RECURSIVE payloadCodes(_)
payloadCodes(cs) ==
    IF cs = <<>> THEN <<>>
    ELSE <<IF Head(cs) = <<>> THEN <<>> ELSE Head(cs)>> \o payloadCodes(Tail(cs))

\* Mutant of ValidateCountryCall: a malformed code is a hard error, as in
\* the batch operations
ValidateCountryCall_HardError(w, c, code, opts) ==
    IF len(code) # 2
    THEN Early(<<>>, Return(ZeroResult, NilResults, Err("format", "invalid country code")))
    ELSE ViaPost(<<>>, postRequest(w, c, "/api/validate/country",
                     [code |-> CodeString(ToUpper(code)),
                      follow_upward |-> opts.FollowUpward]))

ValidateCountryCall(w, c, code, opts) ==
    IF len(code) # 2
    THEN Early(<<>>, Return(ValidationResult(FALSE, "Invalid country code.", ""),
                            NilResults, NilErr))
    ELSE ViaPost(<<>>, postRequest(w, c, "/api/validate/country",
                     [code |-> CodeString(ToUpper(code)),
                      follow_upward |-> opts.FollowUpward]))

ValidateCountriesCall(w, c, cs, opts) ==
    IF Len(cs) = 0
    THEN Early(cs, Return(ZeroResult, Results(<<>>), NilErr))
    ELSE LET loop == formatLoop(cs, 1)
         IN  IF ~loop.ok
             THEN Early(loop.codes,
                        Return(ZeroResult, NilResults,
                               Err("format",
                                   "invalid country code format. All codes must be 2-character strings")))
             ELSE ViaPost(loop.codes,
                          postRequest(w, c, "/api/validate/country",
                              [code |-> CodeArray(loop.codes),
                               follow_upward |-> FALSE]))

ValidateSubdivisionCall(w, c, code, country, opts) ==
    IF len(country) # 2
    THEN Early(<<>>, Return(ValidationResult(FALSE, "Invalid country code.", ""),
                            NilResults, NilErr))
    ELSE ViaPost(<<>>, postRequest(w, c, "/api/validate/subdivision",
                     [code |-> CodeString(code),
                      country |-> ToUpper(country),
                      follow_related |-> opts.FollowRelated,
                      allow_parent_selection |-> opts.AllowParentSelection]))

\* Mutant of ValidateSubdivisionsCall: follow_related is taken from the
\* caller's options
ValidateSubdivisionsCall_FollowRelated(w, c, cs, country, opts) ==
    IF len(country) # 2
    THEN Early(cs, Return(ZeroResult, NilResults, Err("format", "invalid country code")))
    ELSE IF Len(cs) = 0
    THEN Early(cs, Return(ZeroResult, Results(<<>>), NilErr))
    ELSE ViaPost(cs, postRequest(w, c, "/api/validate/subdivision",
                     [code |-> CodeArray(payloadCodes(cs)),
                      country |-> ToUpper(country),
                      follow_related |-> opts.FollowRelated,
                      allow_parent_selection |-> opts.AllowParentSelection]))

ValidateSubdivisionsCall(w, c, cs, country, opts) ==
    IF len(country) # 2
    THEN Early(cs, Return(ZeroResult, NilResults, Err("format", "invalid country code")))
    ELSE IF Len(cs) = 0
    THEN Early(cs, Return(ZeroResult, Results(<<>>), NilErr))
    ELSE ViaPost(cs, postRequest(w, c, "/api/validate/subdivision",
                     [code |-> CodeArray(payloadCodes(cs)),
                      country |-> ToUpper(country),
                      follow_related |-> FALSE,
                      allow_parent_selection |-> opts.AllowParentSelection]))

----------------------------------------------------------------------------
(* Inputs *)

Alphabet == {"u", "é"}              \* characters of country codes

SubdivisionAlphabet == {"u"}        \* characters of subdivision codes

KeyAlphabet == {" ", "k"}           \* characters of API keys

CountryStrings == SeqsUpTo(Alphabet, MaxStrLen)

SubdivisionStrings == SeqsUpTo(SubdivisionAlphabet, MaxStrLen)

Keys == SeqsUpTo(KeyAlphabet, MaxStrLen)

BaseURLs == {<<>>, <<"/">>, <<"h">>, <<"h", "/">>}

Options ==
    {BaseURLOption(u) : u \in BaseURLs}
        \cup {HTTPClientOption(h) : h \in {NilHTTPClient, CustomHTTPClient}}

Contexts == {"nil", "live", "done"}

Outs == {"nil", "single", "multi"}

Paths == {"/api/validate/country", "/api/validate/subdivision"}

----------------------------------------------------------------------------
(* Actions *)

\* The record kept of a call; codes is the slice as the caller passed it
Call(op, code, cs, country, opts, c, out) ==
    [op |-> op, code |-> code, codes |-> cs, country |-> country,
     opts |-> opts, ctx |-> c, out |-> out]

NoCall == Call("none", <<>>, <<>>, <<>>, [FollowUpward |-> FALSE], "live", "nil")

\* A call is entered and runs to its early return or to v.httpClient.Do.
\* The validator keeps nothing from one call to the next, so a behaviour
\* follows one call from entry to return.
Enter(callRec, o) ==
    /\ pc = "idle"
    /\ ~v.nil
    /\ call' = callRec
    /\ ctx' = callRec.ctx
    /\ pc' = o.pc
    /\ ret' = o.ret
    /\ reqs' = o.reqs
    /\ codes' = o.codes
    /\ resp' = <<>>
    /\ closes' = 0
    /\ UNCHANGED <<v, newArgs, newRet>>

ValidateCountry(c, code, opts) ==
    Enter(Call("ValidateCountry", code, <<>>, <<>>, opts, c, "single"),
          ValidateCountryCall(v, c, code, opts))

ValidateCountries(c, cs, opts) ==
    Enter(Call("ValidateCountries", <<>>, cs, <<>>, opts, c, "multi"),
          ValidateCountriesCall(v, c, cs, opts))

ValidateSubdivision(c, code, country, opts) ==
    Enter(Call("ValidateSubdivision", code, <<>>, country, opts, c, "single"),
          ValidateSubdivisionCall(v, c, code, country, opts))

ValidateSubdivisions(c, cs, country, opts) ==
    Enter(Call("ValidateSubdivisions", <<>>, cs, country, opts, c, "multi"),
          ValidateSubdivisionsCall(v, c, cs, country, opts))

\* post called on its own, with any out
post(c, path, out) ==
    Enter(Call("post", <<>>, <<>>, <<>>, [FollowUpward |-> FALSE], c, out),
          ViaPost(<<>>, postRequest(v, c, path, [code |-> CodeString(<<"U", "U">>),
                                                 follow_upward |-> FALSE])))

\* The caller cancels the context of the request in flight
CtxCancel ==
    /\ pc = "inflight"
    /\ ctx = "live"
    /\ ctx' = "done"
    /\ UNCHANGED <<v, newArgs, newRet, pc, call, codes, reqs, resp, closes, ret>>

\* The error v.httpClient.Do returns: the context's once it is done,
\* else a connection failure or the client's timeout
DoErr(c) ==
    IF c = "done" THEN Err("context", "context canceled")
    ELSE Err("transport", "connection refused")

\* Mutant of DoError: a failed exchange is retried once before the error
\* is handed on
DoError_Retry ==
    /\ pc = "inflight"
    /\ IF Len(reqs) < 2
       THEN /\ reqs' = Append(reqs, reqs[1])
            /\ UNCHANGED <<pc, ret>>
       ELSE /\ pc' = "returned"
            /\ ret' = Return(ZeroResult, NilResults, DoErr(ctx))
            /\ UNCHANGED reqs
    /\ UNCHANGED <<v, newArgs, newRet, call, codes, ctx, resp, closes>>

\* v.httpClient.Do returns an error; post and the operation hand it on
DoError ==
    /\ pc = "inflight"
    /\ pc' = "returned"
    /\ ret' = Return(ZeroResult, NilResults, DoErr(ctx))
    /\ UNCHANGED <<v, newArgs, newRet, call, codes, ctx, reqs, resp, closes>>

\* v.httpClient.Do returns a response (a request whose context is done is
\* aborted and gets none); post handles it and the operation returns
DoResponse(status, body) ==
    /\ pc = "inflight"
    /\ ctx = "live"
    /\ LET r == [status |-> status, body |-> body]
           o == postResponse(r, call.out)
       IN  /\ resp' = Append(resp, r)
           /\ closes' = closes + o.closes
           /\ ret' = o.ret
    /\ pc' = "returned"
    /\ UNCHANGED <<v, newArgs, newRet, call, codes, ctx, reqs>>

\* NewValidator(apiKey, opts...), called once
New(apiKey, opts) ==
    /\ pc = "idle"
    /\ pc' = "returned"
    /\ newArgs' = [apiKey |-> apiKey, opts |-> opts]
    /\ newRet' = NewValidator(apiKey, opts)
    /\ v' = NewValidator(apiKey, opts).validator
    /\ UNCHANGED <<call, codes, ctx, reqs, resp, closes, ret>>

----------------------------------------------------------------------------
(* Specifications *)

NoCallYet ==
    /\ pc = "idle"
    /\ call = NoCall
    /\ codes = <<>>
    /\ ctx = "live"
    /\ reqs = <<>>
    /\ resp = <<>>
    /\ closes = 0
    /\ ret = NoReturn

\* A validator built by NewValidator("k")
Init ==
    /\ newArgs = [apiKey |-> <<"k">>, opts |-> <<>>]
    /\ newRet = NewValidator(<<"k">>, <<>>)
    /\ v = newRet.validator
    /\ NoCallYet

Operation ==
    /\ pc = "idle"
    /\ \/ \E c \in Contexts, code \in CountryStrings, opts \in CountryOptions :
              ValidateCountry(c, code, opts)
       \/ \E c \in Contexts, cs \in SeqsUpTo(CountryStrings, MaxCodes), opts \in CountryOptions :
              ValidateCountries(c, cs, opts)
       \/ \E c \in Contexts, code \in SubdivisionStrings, country \in CountryStrings,
             opts \in SubdivisionOptions :
              ValidateSubdivision(c, code, country, opts)
       \/ \E c \in Contexts, cs \in SeqsUpTo(SubdivisionStrings, MaxCodes),
             country \in CountryStrings, opts \in SubdivisionOptions :
              ValidateSubdivisions(c, cs, country, opts)

Transport ==
    \/ CtxCancel
    \/ DoError
    \/ \E status \in Statuses, body \in Bodies : DoResponse(status, body)

Next == Operation \/ Transport

\* The four operations on a validator
Spec == Init /\ [][Next]_vars

\* A request whose context is done does not stay in flight: Do returns
Fairness == WF_vars(ctx = "done" /\ DoError)

FairSpec == Spec /\ Fairness

\* The four operations and post called on its own
NextPost ==
    \/ Next
    \/ pc = "idle" /\ \E c \in Contexts, path \in Paths, out \in Outs : post(c, path, out)

SpecPost == Init /\ [][NextPost]_vars

\* Construction alone
InitNew ==
    /\ v = NilValidator
    /\ newArgs = [apiKey |-> <<>>, opts |-> <<>>]
    /\ newRet = NewValidator(<<>>, <<>>)
    /\ NoCallYet

NextNew ==
    /\ pc = "idle"
    /\ \E apiKey \in Keys, opts \in SeqsUpTo(Options, MaxOpts) : New(apiKey, opts)

SpecNew == InitNew /\ [][NextNew]_vars

----------------------------------------------------------------------------
(* Properties *)

IsBatch == call.op \in {"ValidateCountries", "ValidateSubdivisions"}

IsSingle == call.op \in {"ValidateCountry", "ValidateSubdivision"}

\* The client-side shape check of the operation called fails on its arguments
ShapeCheckFails ==
    \/ call.op = "ValidateCountry" /\ len(call.code) # 2
    \/ call.op = "ValidateSubdivision" /\ len(call.country) # 2
    \/ call.op = "ValidateCountries" /\ \E i \in 1..Len(call.codes) : len(call.codes[i]) # 2
    \/ call.op = "ValidateSubdivisions" /\ len(call.country) # 2

SoftFailure ==
    /\ ret.single = [Valid |-> FALSE, Message |-> "Invalid country code.", Code |-> ""]
    /\ ret.err = NilErr

HardFailure ==
    /\ ret.multi = NilResults
    /\ ret.err # NilErr

C2_BatchErrorOnlyFromNetwork ==
    (pc = "returned" /\ IsBatch /\ call.ctx # "nil" /\ ret.err # NilErr) =>
        /\ reqs # <<>>
        /\ ret.err.kind \in {"transport", "context", "server", "decode"}

\* C3: for a response with status >= 400 the error text is the server's
\* message when the body decodes as an envelope with a non-empty message,
\* and "countriesdb: http <status>" otherwise; nothing is decoded into the
\* result.
C3_StatusErrorText ==
    (pc = "returned" /\ resp # <<>> /\ resp[1].status >= 400) =>
        LET body == resp[1].body
        IN  /\ ret.err # NilErr
            /\ IF body.kind = "object" /\ body.message # ""
               THEN ret.err.text = body.message
               ELSE ret.err.text = "countriesdb: http " \o ToString(resp[1].status)
            /\ ret.single = ZeroResult
            /\ ret.multi = NilResults

C3_Witness ==
    /\ pc = "returned"
    /\ IsBatch
    /\ resp # <<>>
    /\ resp[1].status = 404
    /\ resp[1].body.message = "not found"
    /\ ret.err.text = "not found"

\* C4: a call returns a decoded result with a nil error only for a 2xx
\* status; any other status gives a non-nil error and a zero-value or nil
\* result.  (Stated as claimed; the code violates it for 300..399.)
C4_Non2xxIsError ==
    (pc = "returned" /\ resp # <<>> /\ resp[1].status \notin 200..299) =>
        /\ ret.err # NilErr
        /\ ret.single = ZeroResult
        /\ ret.multi = NilResults

\* C5: a batch request always carries follow_upward = false
\* (ValidateCountries) or follow_related = false (ValidateSubdivisions);
\* allow_parent_selection is the caller's option in both subdivision
\* operations, and the single operations send the caller's follow_upward
\* and follow_related.
C5_HierarchyFlags ==
    reqs # <<>> =>
        LET payload == reqs[1].payload
        IN  /\ call.op = "ValidateCountries" => payload.follow_upward = FALSE
            /\ call.op = "ValidateSubdivisions" =>
                   /\ payload.follow_related = FALSE
                   /\ payload.allow_parent_selection = call.opts.AllowParentSelection
            /\ call.op = "ValidateCountry" =>
                   payload.follow_upward = call.opts.FollowUpward
            /\ call.op = "ValidateSubdivision" =>
                   /\ payload.follow_related = call.opts.FollowRelated
                   /\ payload.allow_parent_selection = call.opts.AllowParentSelection

C5_Witness ==
    /\ call.op = "ValidateSubdivisions"
    /\ call.opts.FollowRelated
    /\ call.opts.AllowParentSelection
    /\ reqs # <<>>
    /\ reqs[1].payload.follow_related = FALSE
    /\ reqs[1].payload.allow_parent_selection = TRUE

\* C6: a batch operation called with an empty codes slice returns an empty
\* non-nil results slice and a nil error without a request, whatever the
\* country argument and the options.  (Stated as claimed; the code violates
\* it for ValidateSubdivisions with a country of length # 2.)
C6_EmptyCodesEmptyResults ==
    (pc # "idle" /\ IsBatch /\ call.codes = <<>>) =>
        /\ pc = "returned"
        /\ ret.multi = Results(<<>>)
        /\ ret.err = NilErr
        /\ reqs = <<>>

\* C7: NewValidator fails with "api key is required" and no Validator
\* exactly when the key consists of white space only; otherwise it succeeds
\* without a network call, with the default base URL unless a non-empty
\* WithBaseURL was given and the default client (10 s timeout) unless a
\* non-nil WithHTTPClient was given.
C7_NewValidator ==
    LET apiKey == newArgs.apiKey
        opts == newArgs.opts
        blank == \A i \in 1..Len(apiKey) : apiKey[i] \in {" ", "\t", "\n", "\r"}
        baseGiven == \E i \in 1..Len(opts) :
                         opts[i].opt = "WithBaseURL" /\ Len(opts[i].baseURL) > 0
        clientGiven == \E i \in 1..Len(opts) :
                           opts[i].opt = "WithHTTPClient" /\ opts[i].h.name # "nil"
    IN  /\ reqs = <<>>
        /\ blank =>
               /\ newRet.err.text = "countriesdb: api key is required"
               /\ newRet.validator.nil
        /\ ~blank =>
               /\ newRet.err = NilErr
               /\ ~newRet.validator.nil
               /\ newRet.validator.apiKey = apiKey
               /\ ~baseGiven =>
                      newRet.validator.baseURL = defaultBaseURL
               /\ ~clientGiven =>
                      /\ newRet.validator.httpClient.name = "default"
                      /\ newRet.validator.httpClient.timeout = 10

C7_Witness ==
    /\ newArgs.apiKey = <<" ", "k">>
    /\ newArgs.opts = <<BaseURLOption(<<>>), HTTPClientOption(NilHTTPClient)>>
    /\ newRet.err = NilErr
    /\ newRet.validator.baseURL = defaultBaseURL
    /\ newRet.validator.httpClient.timeout = 10

C9_BodyClosedOnce ==
    /\ closes = Len(resp)
    /\ Len(resp) <= 1
    /\ resp # <<>> => pc = "returned"

C9_Witness ==
    /\ pc = "returned"
    /\ call.op = "post"
    /\ call.out = "nil"
    /\ resp # <<>>
    /\ resp[1].status = 399
    /\ closes = 1

====
